---- MODULE Spec2Model ----
(***************************************************************************)
(* Trace session context of the OpenClaw observability plugin:             *)
(* src/src/hooks.ts (lifecycle hooks, stale-context cleanup) and           *)
(* src/src/diagnostics.ts (model.usage listener, pending usage buffer).    *)
(*                                                                         *)
(* Spans live in two tables, each in creation order: the spans of the      *)
(* request tree (request, agent turn, tool; named 1, 2, ..) and the        *)
(* standalone spans (message, command, gateway; named -1, -2, ..).  A      *)
(* Context is named by the span it carries (0 = context.active(), which    *)
(* carries no span).                                                       *)
(* Every handler is translated to the list of calls it makes, in order;    *)
(* Exec runs the list, and a failing primitive call cuts it short the way  *)
(* a thrown exception does.                                                *)
(***************************************************************************)
EXTENDS Integers, Sequences, FiniteSets, TLC

\* ------------------------------------------------------------- bounds
MaxSpans      == 4  \* request, agent turn and tool spans started in one behaviour
MaxAudit      == 1  \* message, command and gateway spans started in one behaviour
MaxUsage      == 1  \* model.usage events delivered in one behaviour
MaxTurnSpans  == 2  \* request, agent turn and tool spans, where usage is followed in detail
MaxTurnUsage  == 2  \* model.usage events delivered, where usage is followed in detail
MaxFaultSpans == 3  \* request, agent turn and tool spans, where calls throw or tool results vary
MaxFaults     == 1  \* primitive calls that throw in one behaviour
MaxTime       == 2  \* wall clock, in units of five minutes
MaxIntervals  == 7  \* wall clock, in sweep intervals, where the sweep is on its timer

\* -------------------------------------------------- program constants
maxAge == 1             \* 5 * 60 * 1000 ms: the clock counts five-minute units
MaxContentLen == 10000  \* slice(0, 10000) of gen_ai.prompt / gen_ai.completion

\* ------------------------------------------------------------- values
Absent == -1            \* a numeric field that is undefined
Min(a, b) == IF a < b THEN a ELSE b

\* x || 0 on an optional number
OrZero(x) == IF x = Absent THEN 0 ELSE x
\* truthiness of an optional number
Truthy(x) == x # Absent /\ x # 0

\* a sessionKey field of an event or hook context is "" when it is missing
\* event?.sessionKey || ctx?.sessionKey || "unknown"
ResolveKey(ek, ck) == IF ek # "" THEN ek ELSE IF ck # "" THEN ck ELSE "unknown"
\* ctx?.sessionKey || "unknown"
ResolveCtxKey(ck) == IF ck # "" THEN ck ELSE "unknown"

EmptyAttrs == [x \in {} |-> 0]
MapSet(m, k, v) == (k :> v) @@ m
MapDelete(m, k) == [x \in DOMAIN m \ {k} |-> m[x]]

\* ------------------------------------------------------------ variables
VARIABLES
  spans,               \* request, agent turn and tool spans started, in creation order
  audits,              \* message, command and gateway spans started, in creation order
  sessionContextMap,   \* sessionKey -> SessionTraceContext
  activeAgentSpans,    \* sessionKey -> agent span (side-table)
  pendingUsageMap,     \* sessionKey -> PendingUsageData
  counters,            \* metric instruments: accumulated amounts
  now,                 \* Date.now(), in units of five minutes
  captureContent,      \* config.captureContent
  faults,              \* primitive calls that have thrown so far
  hostFault,           \* an exception has left a handler towards the host
  lastEnd,             \* the last agent_end that found an agent turn span
  phase,               \* per sessionKey: the lifecycle events seen so far
  sideSince,           \* per sessionKey: usage records since the last turn-end
  delivered,           \* model.usage events delivered so far
  returned,            \* what the last before_agent_start / tool_result_persist returned
  turnStart            \* per sessionKey: Date.now() when the stored agent span was started

vars == <<spans, audits, sessionContextMap, activeAgentSpans, pendingUsageMap, counters,
          now, captureContent, faults, hostFault, lastEnd, phase, sideSince,
          delivered, returned, turnStart>>

SessionKeys == {"s1", "unknown"}

\* ------------------------------------------------- the span primitive
NewSpan(name, kind, parent, attrs) ==
  [name |-> name, kind |-> kind, parent |-> parent, attrs |-> attrs,
   status |-> "UNSET", ends |-> 0, late |-> FALSE]

\* the calls a handler makes
OpStart(name, kind, parent, attrs) ==
  [op |-> "startSpan", name |-> name, kind |-> kind, parent |-> parent, attrs |-> attrs]
OpAttr(span, name, val) == [op |-> "setAttribute", span |-> span, name |-> name, val |-> val]
OpStatus(span, code)    == [op |-> "setStatus", span |-> span, code |-> code]
OpEnd(span)             == [op |-> "end", span |-> span]
OpAdd(counter, amount)  == [op |-> "add", counter |-> counter, amount |-> amount]
OpCtxSet(key, ctx)      == [op |-> "ctxSet", key |-> key, ctx |-> ctx]
OpCtxAgent(key, span)   == [op |-> "ctxAgent", key |-> key, span |-> span]
OpCtxDelete(key)        == [op |-> "ctxDelete", key |-> key]
OpActiveSet(key, span)  == [op |-> "activeSet", key |-> key, span |-> span]
OpActiveDelete(key)     == [op |-> "activeDelete", key |-> key]
OpPendingSet(key, data) == [op |-> "pendingSet", key |-> key, data |-> data]
OpPendingDelete(key)    == [op |-> "pendingDelete", key |-> key]

\* calls into the span / metric primitives: the ones that can throw
PrimitiveOps == {"startSpan", "setAttribute", "setStatus", "end", "add"}

\* a span that has ended takes no more attributes or status
SetAttribute(s, name, val) ==
  IF s.ends > 0 THEN [s EXCEPT !.late = TRUE]
  ELSE [s EXCEPT !.attrs = (name :> val) @@ s.attrs]

SetStatus(s, code) ==
  IF s.ends > 0 THEN [s EXCEPT !.late = TRUE]
  ELSE [s EXCEPT !.status = code]

\* spans outside the request / agent turn / tool tree
AuditNames ==
  {"openclaw.message.received", "openclaw.gateway.startup"}
  \cup {"openclaw.command." \o action : action \in {"new", "reset", "stop", "unknown"}}

Apply(st, o) ==
  CASE o.op = "startSpan" ->
         IF o.name \in AuditNames
         THEN [st EXCEPT !.audits = Append(st.audits, NewSpan(o.name, o.kind, o.parent, o.attrs))]
         ELSE [st EXCEPT !.spans = Append(st.spans, NewSpan(o.name, o.kind, o.parent, o.attrs))]
    [] o.op = "setAttribute" ->
         IF o.span < 0
         THEN [st EXCEPT !.audits[-o.span] = SetAttribute(st.audits[-o.span], o.name, o.val)]
         ELSE [st EXCEPT !.spans[o.span] = SetAttribute(st.spans[o.span], o.name, o.val)]
    [] o.op = "setStatus" ->
         IF o.span < 0
         THEN [st EXCEPT !.audits[-o.span] = SetStatus(st.audits[-o.span], o.code)]
         ELSE [st EXCEPT !.spans[o.span] = SetStatus(st.spans[o.span], o.code)]
    [] o.op = "end" ->
         IF o.span < 0
         THEN [st EXCEPT !.audits[-o.span].ends = @ + 1]
         ELSE [st EXCEPT !.spans[o.span].ends = @ + 1]
    [] o.op = "add" ->
         [st EXCEPT !.counters[o.counter] = @ + o.amount]
    [] o.op = "ctxSet" ->
         [st EXCEPT !.map = MapSet(st.map, o.key, o.ctx)]
    [] o.op = "ctxAgent" ->
         [st EXCEPT !.map[o.key].agentSpan = o.span, !.map[o.key].agentContext = o.span]
    [] o.op = "ctxDelete" ->
         [st EXCEPT !.map = MapDelete(st.map, o.key)]
    [] o.op = "activeSet" ->
         [st EXCEPT !.active = MapSet(st.active, o.key, o.span)]
    [] o.op = "activeDelete" ->
         [st EXCEPT !.active = MapDelete(st.active, o.key)]
    [] o.op = "pendingSet" ->
         [st EXCEPT !.pending = MapSet(st.pending, o.key, o.data)]
    [] o.op = "pendingDelete" ->
         [st EXCEPT !.pending = MapDelete(st.pending, o.key)]

\* run ops in order; the f-th call throws (f = 0: none does) and nothing after it runs
RECURSIVE Exec(_, _, _)
Exec(st, ops, f) ==
  IF ops = <<>> \/ f = 1 THEN st
  ELSE Exec(Apply(st, Head(ops)), Tail(ops), IF f = 0 THEN 0 ELSE f - 1)

\* the places where a handler's run can be cut short, given a fault budget
FaultPoints(ops, mf) ==
  {0} \cup (IF faults < mf THEN {i \in 1..Len(ops) : ops[i].op \in PrimitiveOps} ELSE {})

Program == [spans |-> spans, audits |-> audits, map |-> sessionContextMap, active |-> activeAgentSpans,
            pending |-> pendingUsageMap, counters |-> counters]

\* a handler has run ops and its f-th call threw (f = 0: none did). guarded says
\* where the throw goes: "all" - the handler's one try/catch, which cuts the run
\* at f; "each" - a try/catch inside the run, and ops already holds what ran;
\* "none" - nothing catches it, and it reaches the caller
Ran(ops, f, guarded) ==
  LET st == IF guarded = "each" THEN Exec(Program, ops, 0) ELSE Exec(Program, ops, f) IN
  /\ spans' = st.spans
  /\ audits' = st.audits
  /\ sessionContextMap' = st.map
  /\ activeAgentSpans' = st.active
  /\ pendingUsageMap' = st.pending
  /\ counters' = st.counters
  /\ faults' = IF f = 0 THEN faults ELSE faults + 1
  /\ hostFault' = (hostFault \/ (f # 0 /\ guarded = "none"))

StartedSpans(ops) == Cardinality({i \in 1..Len(ops) : ops[i].op = "startSpan"})


\* ------------------------------------------------------------- inputs
AgentIds == {"a1"}
Models == {"m"}

\* a field of msg.usage: typeof u.f === "number" when it is not Absent
MsgUsage(i, it, i_t, o, ot, o_t, cr, cw) ==
  [input |-> i, inputTokens |-> it, input_tokens |-> i_t,
   output |-> o, outputTokens |-> ot, output_tokens |-> o_t,
   cacheRead |-> cr, cacheWrite |-> cw]

\* a transcript message; usage is <<>> or <<u>>, model "" when missing,
\* content is <<>> (missing), <<n>> (a string of n characters) or
\* <<n1, .., nk>> under parts = TRUE (an array of typed parts; n = Absent: not a text part)
Msg(role, usage, model, parts, content) ==
  [role |-> role, usage |-> usage, model |-> model, parts |-> parts, content |-> content]

UserMsg == Msg("user", <<>>, "", FALSE, <<3>>)
AsstPlain == Msg("assistant", <<MsgUsage(2, Absent, Absent, 1, Absent, Absent, Absent, Absent)>>,
                 "m1", FALSE, <<4>>)
AsstCache == Msg("assistant", <<MsgUsage(1, 7, Absent, 1, Absent, Absent, 1, Absent)>>,
                 "m1", TRUE, <<2, Absent, 1>>)
AsstAlias == Msg("assistant", <<MsgUsage(Absent, Absent, 2, Absent, 3, Absent, Absent, 1)>>,
                 "m2", FALSE, <<>>)
AsstNoUsage == Msg("assistant", <<>>, "", FALSE, <<2>>)
AsstTen == Msg("assistant", <<MsgUsage(10, Absent, Absent, 5, Absent, Absent, Absent, Absent)>>,
               "m", FALSE, <<1>>)

\* event.messages of agent_end
Transcripts ==
  << <<>>,
     <<UserMsg, AsstPlain>>,
     <<UserMsg, AsstCache, AsstAlias>>,
     <<UserMsg, AsstNoUsage>>,
     <<AsstTen>> >>

\* a diagnostic event; type "model.usage" is the usage record
DiagEvt(type, key, i, o, cr, cw, total, cost, model, provider, dur, limit, used) ==
  [type |-> type, sessionKey |-> key,
   usage |-> [input |-> i, output |-> o, cacheRead |-> cr, cacheWrite |-> cw, total |-> total],
   costUsd |-> cost, model |-> model, provider |-> provider, durationMs |-> dur,
   context |-> [limit |-> limit, used |-> used]]

UsageRecords ==
  << DiagEvt("model.usage", "", 3, 1, Absent, Absent, 4, 2, "m1", "p", 1, 9, 4),
     DiagEvt("model.usage", "", 1, 2, 1, 0, 6, Absent, "", "", Absent, Absent, Absent) >>

\* the diagnostic events delivered: usage records which, for sessions keys, and one
\* event of another type
DiagEvents(keys, which) ==
  {[UsageRecords[i] EXCEPT !.sessionKey = k] : k \in keys, i \in which}
  \cup {DiagEvt("session.state", "s1", Absent, Absent, Absent, Absent, Absent, Absent, "", "",
                 Absent, Absent, Absent)}

\* the tool result message of tool_result_persist: <<>> when event.message is missing
ToolMsg(isError, parts, chars) == [isError |-> isError, parts |-> parts, chars |-> chars]
\* event.toolName, whether checkToolSecurity reports a detection, event.message
ToolEvt(toolName, detected, message) ==
  [toolName |-> toolName, detected |-> detected, message |-> message]
ToolEvents ==
  {ToolEvt("Read", FALSE, <<ToolMsg(FALSE, 1, 2)>>),
   ToolEvt("exec", FALSE, <<ToolMsg(TRUE, Absent, 0)>>),
   ToolEvt("exec", TRUE, <<>>),
   ToolEvt("exec", TRUE, <<ToolMsg(TRUE, 1, 2)>>),
   ToolEvt("Read", TRUE, <<ToolMsg(FALSE, 1, 2)>>),
   ToolEvt("Read", FALSE, <<>>)}

\* ------------------------------------------------------ ghost bookkeeping
\* the lifecycle events a sessionKey has seen: start, tool*, end (t1, e1), then
\* start, tool*, end again (t2, e2); start, start (tt); anything else, a call
\* that threw, or the stale cleanup removing the context: other
PhaseNext(p, ev) ==
  CASE p = "init" /\ ev = "start" -> "t1"
    [] p = "t1" /\ ev = "tool" -> "t1"
    [] p = "t1" /\ ev = "end" -> "e1"
    [] p = "t1" /\ ev = "start" -> "tt"
    [] p = "e1" /\ ev = "start" -> "t2"
    [] p = "t2" /\ ev = "tool" -> "t2"
    [] p = "t2" /\ ev = "end" -> "e2"
    [] OTHER -> "other"

\* variant: a caught error is handed back to the host
HandlerReturnCaught(type, f) == IF f = 0 THEN "undefined" ELSE "error"

\* the "return undefined" that follows the try/catch of before_agent_start and of
\* tool_result_persist; f # 0: a call threw and the catch block ran
HandlerReturn(type, f) == "undefined"

\* when the agent span of each stored context was started: the time of the
\* turn-start that stored it; 0 for a key with no stored context
TurnStartNext(type, key) ==
  [k \in SessionKeys |->
     IF k \notin DOMAIN sessionContextMap' THEN 0
     ELSE IF /\ type = "start"
             /\ k = key
             /\ sessionContextMap'[k].agentSpan # 0
             /\ (k \in DOMAIN sessionContextMap =>
                   sessionContextMap'[k].agentSpan # sessionContextMap[k].agentSpan)
          THEN now
          ELSE turnStart[k]]

Seen(type, key, f) ==
  /\ turnStart' = TurnStartNext(type, key)
  /\ returned' = IF type \in {"start", "tool"} THEN HandlerReturn(type, f) ELSE returned
  /\ phase' = IF type \in {"start", "tool", "end"}
              THEN [phase EXCEPT ![key] = IF f # 0 THEN "other" ELSE PhaseNext(@, type)]
              ELSE phase
  /\ sideSince' = IF type = "end" THEN [sideSince EXCEPT ![key] = 0]
                  ELSE IF type = "usage" THEN [sideSince EXCEPT ![key] = @ + 1]
                  ELSE sideSince

\* ------------------------------------------------------ message_received
\* checkMessageSecurity / checkToolSecurity: a detection counts a security event
\* and raises the span's status
SecurityOps(span, detected) ==
  IF detected THEN <<OpAdd("securityEvents", 1), OpStatus(span, "ERROR")>> ELSE <<>>

\* variant: the message span is stored as the session's root span
MessageReceivedOpsAnchoring(sessionKey, hasText, detected) ==
  LET messageSpan == -(Len(audits) + 1) IN
  <<OpStart("openclaw.message.received", "SERVER", 0,
            ("openclaw.session.key" :> sessionKey)),
    OpCtxSet(sessionKey, [rootSpan |-> messageSpan, rootContext |-> messageSpan,
                          agentSpan |-> 0, agentContext |-> 0, startTime |-> now]),
    OpAdd("messagesReceived", 1)>>

MessageReceivedOps(sessionKey, hasText, detected) ==
  LET messageSpan == -(Len(audits) + 1) IN
  <<OpStart("openclaw.message.received", "SERVER", 0,
            ("openclaw.session.key" :> sessionKey))>>
  \o (IF hasText THEN SecurityOps(messageSpan, detected) ELSE <<>>)
  \o <<OpAdd("messagesReceived", 1),
       OpStatus(messageSpan, "OK"),
       OpEnd(messageSpan)>>

MessageReceived(in) ==
  \E ek \in in.auditKeys, ck \in in.auditKeys, hasText \in BOOLEAN, detected \in in.detected :
    LET sessionKey == ResolveKey(ek, ck)
        ops == MessageReceivedOps(sessionKey, hasText, detected)
    IN /\ Len(audits) < in.maxAudit
       /\ \E f \in FaultPoints(ops, in.maxFaults) :
            /\ Ran(ops, f, "all")
            /\ Seen("message", sessionKey, f)
       /\ UNCHANGED <<now, captureContent, delivered, lastEnd>>

\* ---------------------------------------------------- before_agent_start
\* variant: the agent turn span started under context.active()
AgentParentContextActive(sessionCtx) == 0

\* the context the agent turn span is started under
AgentParentContext(sessionCtx) == sessionCtx.rootContext

\* variant: every turn-start creates a root span
HasContextIgnored(sessionKey) == FALSE

\* sessionContextMap.get(sessionKey) finds a context
HasContext(sessionKey) == sessionKey \in DOMAIN sessionContextMap

\* variant: the new agent span is stored on the context only
StoreAgentOpsContextOnly(sessionKey, agentSpan) == <<OpCtxAgent(sessionKey, agentSpan)>>

\* sessionCtx.agentSpan / agentContext = ...; activeAgentSpans.set(sessionKey, agentSpan)
StoreAgentOps(sessionKey, agentSpan) ==
  <<OpCtxAgent(sessionKey, agentSpan), OpActiveSet(sessionKey, agentSpan)>>

BeforeAgentStartOps(sessionKey, agentId, model) ==
  LET has == HasContext(sessionKey)
      rootSpan == Len(spans) + 1
      created == [rootSpan |-> rootSpan, rootContext |-> rootSpan,
                  agentSpan |-> 0, agentContext |-> 0, startTime |-> now]
      sessionCtx == IF has THEN sessionContextMap[sessionKey] ELSE created
      agentSpan == IF has THEN Len(spans) + 1 ELSE Len(spans) + 2
  IN (IF has THEN <<>>
      ELSE <<OpStart("openclaw.request", "SERVER", 0,
                     ("openclaw.session.key" :> sessionKey)
                     @@ ("openclaw.message.direction" :> "inbound")),
             OpCtxSet(sessionKey, created)>>)
     \o <<OpStart("openclaw.agent.turn", "INTERNAL", AgentParentContext(sessionCtx),
                  ("openclaw.agent.id" :> agentId) @@ ("openclaw.session.key" :> sessionKey)
                  @@ ("openclaw.agent.model" :> model))>>
     \o StoreAgentOps(sessionKey, agentSpan)

BeforeAgentStartCall(ek, ck, agentId, model, in) ==
  LET sessionKey == ResolveKey(ek, ck)
      ops == BeforeAgentStartOps(sessionKey, agentId, model)
  IN /\ Len(spans) + StartedSpans(ops) <= in.maxSpans
     /\ \E f \in FaultPoints(ops, in.maxFaults) :
          /\ Ran(ops, f, "all")
          /\ Seen("start", sessionKey, f)
     /\ UNCHANGED <<now, captureContent, delivered, lastEnd>>

BeforeAgentStart(in) ==
  \E ek \in in.keyFields, ck \in in.keyFields, agentId \in AgentIds, model \in Models :
    BeforeAgentStartCall(ek, ck, agentId, model, in)

\* --------------------------------------------------- tool_result_persist
\* variant: sessionCtx?.rootContext || sessionCtx?.agentContext || context.active()
ToolParentContextRootFirst(sessionKey) ==
  IF sessionKey \notin DOMAIN sessionContextMap THEN 0
  ELSE IF sessionContextMap[sessionKey].rootContext # 0
       THEN sessionContextMap[sessionKey].rootContext
       ELSE sessionContextMap[sessionKey].agentContext

\* variant: sessionCtx?.agentContext || context.active()
ToolParentContextAgentOnly(sessionKey) ==
  IF sessionKey \notin DOMAIN sessionContextMap THEN 0
  ELSE sessionContextMap[sessionKey].agentContext

\* variant: with no context of its own, the tool span goes under any stored agent span
ToolParentContextAnySession(sessionKey) ==
  IF sessionKey \in DOMAIN sessionContextMap
  THEN (IF sessionContextMap[sessionKey].agentContext # 0
        THEN sessionContextMap[sessionKey].agentContext
        ELSE sessionContextMap[sessionKey].rootContext)
  ELSE IF DOMAIN sessionContextMap = {} THEN 0
  ELSE sessionContextMap[CHOOSE k \in DOMAIN sessionContextMap : TRUE].agentContext

\* sessionCtx?.agentContext || sessionCtx?.rootContext || context.active()
ToolParentContext(sessionKey) ==
  IF sessionKey \notin DOMAIN sessionContextMap THEN 0
  ELSE IF sessionContextMap[sessionKey].agentContext # 0
       THEN sessionContextMap[sessionKey].agentContext
       ELSE sessionContextMap[sessionKey].rootContext

\* variant: OK is set whenever the result is not flagged erroneous
ToolStatusOpsAlwaysOk(span, detected, message) ==
  IF message # <<>> /\ message[1].isError
  THEN <<OpAdd("toolErrors", 1), OpStatus(span, "ERROR")>>
  ELSE <<OpStatus(span, "OK")>>

\* the final status of the tool span: ERROR for a result flagged erroneous, else
\* OK unless the security check reported a detection
ToolStatusOps(span, detected, message) ==
  IF message # <<>>
  THEN IF message[1].isError
       THEN <<OpAdd("toolErrors", 1), OpStatus(span, "ERROR")>>
       ELSE IF ~detected THEN <<OpStatus(span, "OK")>> ELSE <<>>
  ELSE IF ~detected THEN <<OpStatus(span, "OK")>> ELSE <<>>

\* variant: the tool span becomes the span later tool spans are started under
ToolResultPersistOpsAnchoring(sessionKey, agentId, toolName, detected, message) ==
  LET span == Len(spans) + 1 IN
  <<OpAdd("toolCalls", 1),
    OpStart("tool." \o toolName, "INTERNAL", ToolParentContext(sessionKey),
            ("openclaw.tool.name" :> toolName) @@ ("openclaw.session.key" :> sessionKey)
            @@ ("openclaw.agent.id" :> agentId))>>
  \o (IF sessionKey \in DOMAIN sessionContextMap
      THEN <<OpCtxAgent(sessionKey, span)>> ELSE <<>>)
  \o ToolStatusOps(span, detected, message)
  \o <<OpEnd(span)>>

ToolResultPersistOps(sessionKey, agentId, toolName, detected, message) ==
  LET span == Len(spans) + 1 IN
  <<OpAdd("toolCalls", 1),
    OpStart("tool." \o toolName, "INTERNAL", ToolParentContext(sessionKey),
            ("openclaw.tool.name" :> toolName) @@ ("openclaw.session.key" :> sessionKey)
            @@ ("openclaw.agent.id" :> agentId))>>
  \o SecurityOps(span, detected)
  \o (IF detected THEN <<OpAttr(span, "openclaw.tool.input_preview", 1)>> ELSE <<>>)
  \o (IF message # <<>> /\ message[1].parts # Absent
      THEN <<OpAttr(span, "openclaw.tool.result_chars", message[1].chars),
             OpAttr(span, "openclaw.tool.result_parts", message[1].parts)>>
      ELSE <<>>)
  \o ToolStatusOps(span, detected, message)
  \o <<OpEnd(span)>>

ToolResultPersistCall(ck, agentId, evt, in) ==
  LET sessionKey == ResolveCtxKey(ck)
      ops == ToolResultPersistOps(sessionKey, agentId, evt.toolName, evt.detected,
                                  evt.message)
  IN /\ Len(spans) + StartedSpans(ops) <= in.maxSpans
     /\ \E f \in FaultPoints(ops, in.maxFaults) :
          /\ Ran(ops, f, "all")
          /\ Seen("tool", sessionKey, f)
     /\ UNCHANGED <<now, captureContent, delivered, lastEnd>>

ToolResultPersist(in) ==
  \E ck \in in.keyFields, agentId \in AgentIds, evt \in in.toolEvents :
    ToolResultPersistCall(ck, agentId, evt, in)

\* -------------------------------------------------------------- agent_end
\* event.success / event.error / event.durationMs of agent_end
\* (success "absent": the field is missing; error "": no error)
EndEvt(success, error, durationMs) ==
  [success |-> success, error |-> error, durationMs |-> durationMs]
EndEvents ==
  {EndEvt("absent", "", Absent), EndEvt("false", "boom", 1),
   EndEvt("false", "", Absent), EndEvt("true", "boom", Absent)}

\* getPendingUsage: the record as <<data>>, or <<>>; the caller deletes what was found
getPendingUsage(sessionKey) ==
  IF sessionKey \in DOMAIN pendingUsageMap THEN <<pendingUsageMap[sessionKey]>> ELSE <<>>

\* the first of the three spellings that is a number
FirstNumber(a, b, c) ==
  IF a # Absent THEN a ELSE IF b # Absent THEN b ELSE IF c # Absent THEN c ELSE 0

\* variant: each assistant message's usage replaces the numbers taken so far
RECURSIVE TranscriptUsageLastOnly(_, _)
TranscriptUsageLastOnly(messages, acc) ==
  IF messages = <<>> THEN acc
  ELSE LET msg == Head(messages)
           u == msg.usage[1]
       IN TranscriptUsageLastOnly(Tail(messages),
            IF msg.role = "assistant" /\ msg.usage # <<>>
            THEN [acc EXCEPT
                    !.input = FirstNumber(u.input, u.inputTokens, u.input_tokens),
                    !.output = FirstNumber(u.output, u.outputTokens, u.output_tokens),
                    !.cacheRead = OrZero(u.cacheRead),
                    !.cacheWrite = OrZero(u.cacheWrite)]
            ELSE acc)

\* the loop over event.messages, one message at a time
RECURSIVE TranscriptUsage(_, _)
TranscriptUsage(messages, acc) ==
  IF messages = <<>> THEN acc
  ELSE LET msg == Head(messages)
           counted == msg.role = "assistant" /\ msg.usage # <<>>
           u == msg.usage[1]
           a1 == IF counted
                 THEN [acc EXCEPT
                         !.input = @ + FirstNumber(u.input, u.inputTokens, u.input_tokens),
                         !.output = @ + FirstNumber(u.output, u.outputTokens, u.output_tokens),
                         !.cacheRead = @ + OrZero(u.cacheRead),
                         !.cacheWrite = @ + OrZero(u.cacheWrite)]
                 ELSE acc
           a2 == IF msg.role = "assistant" /\ msg.model # ""
                 THEN [a1 EXCEPT !.model = msg.model] ELSE a1
       IN TranscriptUsage(Tail(messages), a2)

NoUsage == [input |-> 0, output |-> 0, cacheRead |-> 0, cacheWrite |-> 0,
            model |-> "unknown", costUsd |-> Absent]

\* the diagUsage branch
DiagUsage(d) ==
  [input |-> OrZero(d.usage.input), output |-> OrZero(d.usage.output),
   cacheRead |-> OrZero(d.usage.cacheRead), cacheWrite |-> OrZero(d.usage.cacheWrite),
   model |-> IF d.model # "" THEN d.model ELSE "unknown", costUsd |-> d.costUsd]

\* variant: the transcript's numbers whenever it has any, else the pending record
TurnUsageTranscriptFirst(diagUsage, messages) ==
  LET t == TranscriptUsage(messages, NoUsage) IN
  IF diagUsage = <<>> \/ t.input > 0 \/ t.output > 0 THEN t ELSE DiagUsage(diagUsage[1])

\* usage source selection: the pending record when there is one, else the transcript
TurnUsage(diagUsage, messages) ==
  IF diagUsage # <<>> THEN DiagUsage(diagUsage[1]) ELSE TranscriptUsage(messages, NoUsage)

\* variant: the total leaves the cache tokens out
TotalTokensInOut(u) == u.input + u.output

\* const totalTokens = the sum of the four token categories
TotalTokens(u) == u.input + u.output + u.cacheRead + u.cacheWrite

\* messages.filter(role) and its last element, as <<>> or <<msg>>
RECURSIVE LastWithRole(_, _)
LastWithRole(messages, role) ==
  IF messages = <<>> THEN <<>>
  ELSE IF messages[Len(messages)].role = role THEN <<messages[Len(messages)]>>
  ELSE LastWithRole(SubSeq(messages, 1, Len(messages) - 1), role)

RECURSIVE JoinedLength(_, _)
\* length of parts.filter(text).map(text || "").join("\n")
JoinedLength(parts, seen) ==
  IF parts = <<>> THEN 0
  ELSE IF Head(parts) = Absent THEN JoinedLength(Tail(parts), seen)
  ELSE (IF seen THEN 1 ELSE 0) + Head(parts) + JoinedLength(Tail(parts), TRUE)

\* the text taken from the last message of a role; 0 is the empty string
ContentLength(last) ==
  IF last = <<>> THEN 0
  ELSE IF last[1].parts THEN JoinedLength(last[1].content, FALSE)
  ELSE IF last[1].content # <<>> THEN last[1].content[1]
  ELSE 0

\* variant: content is captured whatever config.captureContent says
CapturedContentAlways(messages, role) ==
  IF Len(messages) > 0 THEN ContentLength(LastWithRole(messages, role)) ELSE 0

CapturedContent(messages, role) ==
  IF captureContent /\ Len(messages) > 0
  THEN ContentLength(LastWithRole(messages, role)) ELSE 0

\* variant: the agent turn span always ends OK
AgentEndStatusAlwaysOk(agentSpan, evt) == <<OpStatus(agentSpan, "OK")>>

\* the agent turn span's status at turn-end
AgentEndStatus(agentSpan, evt) ==
  IF evt.error # ""
  THEN <<OpAttr(agentSpan, "openclaw.agent.error", evt.error), OpStatus(agentSpan, "ERROR")>>
  ELSE <<OpStatus(agentSpan, "OK")>>

\* metrics from the transcript numbers, when no pending record was consumed
AgentEndMetrics(diagUsage, u) ==
  IF diagUsage = <<>> /\ (u.input > 0 \/ u.output > 0)
  THEN <<OpAdd("tokensPrompt", u.input + u.cacheRead + u.cacheWrite),
         OpAdd("tokensCompletion", u.output),
         OpAdd("tokensTotal", TotalTokens(u)),
         OpAdd("llmRequests", 1)>>
  ELSE <<>>

AgentSpanOps(agentSpan, diagUsage, u, evt, messages) ==
  LET inputContent == CapturedContent(messages, "user")
      outputContent == CapturedContent(messages, "assistant")
  IN (IF evt.durationMs # Absent
      THEN <<OpAttr(agentSpan, "openclaw.agent.duration_ms", evt.durationMs)>> ELSE <<>>)
     \o <<OpAttr(agentSpan, "gen_ai.usage.input_tokens", u.input),
          OpAttr(agentSpan, "gen_ai.usage.output_tokens", u.output),
          OpAttr(agentSpan, "gen_ai.usage.total_tokens", TotalTokens(u)),
          OpAttr(agentSpan, "gen_ai.response.model", u.model),
          OpAttr(agentSpan, "openclaw.agent.success", evt.success # "false")>>
     \o (IF u.cacheRead > 0
         THEN <<OpAttr(agentSpan, "gen_ai.usage.cache_read_tokens", u.cacheRead)>> ELSE <<>>)
     \o (IF u.cacheWrite > 0
         THEN <<OpAttr(agentSpan, "gen_ai.usage.cache_write_tokens", u.cacheWrite)>> ELSE <<>>)
     \o (IF u.costUsd # Absent
         THEN <<OpAttr(agentSpan, "openclaw.llm.cost_usd", u.costUsd)>> ELSE <<>>)
     \o (IF diagUsage # <<>> /\ Truthy(diagUsage[1].context.limit)
         THEN <<OpAttr(agentSpan, "openclaw.context.limit", diagUsage[1].context.limit)>>
         ELSE <<>>)
     \o (IF diagUsage # <<>> /\ Truthy(diagUsage[1].context.used)
         THEN <<OpAttr(agentSpan, "openclaw.context.used", diagUsage[1].context.used)>>
         ELSE <<>>)
     \o (IF inputContent > 0
         THEN <<OpAttr(agentSpan, "gen_ai.prompt", Min(inputContent, MaxContentLen))>>
         ELSE <<>>)
     \o (IF outputContent > 0
         THEN <<OpAttr(agentSpan, "gen_ai.completion", Min(outputContent, MaxContentLen))>>
         ELSE <<>>)
     \o AgentEndMetrics(diagUsage, u)
     \o (IF evt.durationMs # Absent THEN <<OpAdd("agentTurnDuration", 1)>> ELSE <<>>)
     \o AgentEndStatus(agentSpan, evt)
     \o <<OpEnd(agentSpan)>>

\* variant: turn-end leaves the root request span open
RootSpanOpsSkipped(sessionCtx) == <<>>

\* "End the root request span"
RootSpanOps(sessionCtx) ==
  IF sessionCtx.rootSpan # 0 /\ sessionCtx.rootSpan # sessionCtx.agentSpan
  THEN <<OpAttr(sessionCtx.rootSpan, "openclaw.request.duration_ms", now - sessionCtx.startTime),
         OpStatus(sessionCtx.rootSpan, "OK"),
         OpEnd(sessionCtx.rootSpan)>>
  ELSE <<>>

\* variant: turn-end removes the store entry only
AgentEndCleanupStoreOnly(sessionKey) == <<OpCtxDelete(sessionKey)>>

\* variant: the handler is suspended before "Clean up"; the deletes run in a later task
AgentEndCleanupSuspended(sessionKey) == <<>>

\* "Clean up"
AgentEndCleanup(sessionKey) == <<OpCtxDelete(sessionKey), OpActiveDelete(sessionKey)>>

AgentEndOps(sessionKey, evt, messages) ==
  LET diagUsage == getPendingUsage(sessionKey)
      u == TurnUsage(diagUsage, messages)
      has == sessionKey \in DOMAIN sessionContextMap
      sessionCtx == sessionContextMap[sessionKey]
  IN (IF diagUsage # <<>> THEN <<OpPendingDelete(sessionKey)>> ELSE <<>>)
     \o (IF has /\ sessionCtx.agentSpan # 0
         THEN AgentSpanOps(sessionCtx.agentSpan, diagUsage, u, evt, messages) ELSE <<>>)
     \o (IF has THEN RootSpanOps(sessionCtx) ELSE <<>>)
     \o AgentEndCleanup(sessionKey)

\* what the last agent_end that found an agent turn span was given and did
EndRecord(span, tr, diagUsage, side, open, recorded) ==
  [span |-> span, tr |-> tr, diagUsage |-> diagUsage, side |-> side, open |-> open,
   recorded |-> recorded]

AgentEndCall(ek, ck, evt, tr, in) ==
  LET sessionKey == ResolveKey(ek, ck)
      ops == AgentEndOps(sessionKey, evt, Transcripts[tr])
      found == sessionKey \in DOMAIN sessionContextMap
               /\ sessionContextMap[sessionKey].agentSpan # 0
  IN /\ \E f \in FaultPoints(ops, in.maxFaults) :
          /\ Ran(ops, f, "all")
          /\ Seen("end", sessionKey, f)
     /\ lastEnd' = IF found
                   THEN EndRecord(sessionContextMap[sessionKey].agentSpan, tr,
                                  getPendingUsage(sessionKey), sideSince[sessionKey],
                                  phase[sessionKey] \in {"t1", "t2"},
                                  counters'["llmRequests"] - counters["llmRequests"])
                   ELSE lastEnd
     /\ UNCHANGED <<now, captureContent, delivered>>

AgentEnd(in) ==
  \E ek \in in.keyFields, ck \in in.keyFields, evt \in in.endEvents, tr \in in.transcripts :
    AgentEndCall(ek, ck, evt, tr, in)

\* ------------------------------------------------- model.usage listener
\* variant: a record that is already pending is kept
PendingUsageDataKeepFirst(evt) ==
  LET sessionKey == IF evt.sessionKey # "" THEN evt.sessionKey ELSE "unknown" IN
  IF sessionKey \in DOMAIN pendingUsageMap THEN pendingUsageMap[sessionKey]
  ELSE [costUsd |-> evt.costUsd, usage |-> evt.usage, context |-> evt.context,
        durationMs |-> evt.durationMs,
        provider |-> IF evt.provider # "" THEN evt.provider ELSE "unknown",
        model |-> IF evt.model # "" THEN evt.model ELSE "unknown"]

\* the record stored in pendingUsageMap
PendingUsageData(evt) ==
  [costUsd |-> evt.costUsd, usage |-> evt.usage, context |-> evt.context,
   durationMs |-> evt.durationMs,
   provider |-> IF evt.provider # "" THEN evt.provider ELSE "unknown",
   model |-> IF evt.model # "" THEN evt.model ELSE "unknown"]

\* "Record metrics immediately (don't wait for span)"
UsageMetricOps(evt) ==
  (IF Truthy(evt.usage.input) THEN <<OpAdd("tokensPrompt", evt.usage.input)>> ELSE <<>>)
  \o (IF Truthy(evt.usage.output) THEN <<OpAdd("tokensCompletion", evt.usage.output)>> ELSE <<>>)
  \o (IF Truthy(evt.usage.cacheRead) THEN <<OpAdd("tokensPrompt", evt.usage.cacheRead)>> ELSE <<>>)
  \o (IF Truthy(evt.usage.cacheWrite) THEN <<OpAdd("tokensPrompt", evt.usage.cacheWrite)>> ELSE <<>>)
  \o (IF Truthy(evt.usage.total) THEN <<OpAdd("tokensTotal", evt.usage.total)>> ELSE <<>>)
  \o (IF evt.costUsd # Absent /\ evt.costUsd > 0 THEN <<OpAdd("costUsd", evt.costUsd)>> ELSE <<>>)
  \o (IF evt.durationMs # Absent THEN <<OpAdd("llmDuration", 1)>> ELSE <<>>)
  \o <<OpAdd("llmRequests", 1)>>

enrichSpanWithUsage(span, data) ==
  (IF data.usage.input # Absent
   THEN <<OpAttr(span, "gen_ai.usage.input_tokens", data.usage.input)>> ELSE <<>>)
  \o (IF data.usage.output # Absent
      THEN <<OpAttr(span, "gen_ai.usage.output_tokens", data.usage.output)>> ELSE <<>>)
  \o (IF data.usage.total # Absent
      THEN <<OpAttr(span, "gen_ai.usage.total_tokens", data.usage.total)>> ELSE <<>>)
  \o (IF data.usage.cacheRead # Absent
      THEN <<OpAttr(span, "gen_ai.usage.cache_read_tokens", data.usage.cacheRead)>> ELSE <<>>)
  \o (IF data.usage.cacheWrite # Absent
      THEN <<OpAttr(span, "gen_ai.usage.cache_write_tokens", data.usage.cacheWrite)>> ELSE <<>>)
  \o (IF data.costUsd # Absent
      THEN <<OpAttr(span, "openclaw.llm.cost_usd", data.costUsd)>> ELSE <<>>)
  \o (IF data.context.limit # Absent
      THEN <<OpAttr(span, "openclaw.context.limit", data.context.limit)>> ELSE <<>>)
  \o (IF data.context.used # Absent
      THEN <<OpAttr(span, "openclaw.context.used", data.context.used)>> ELSE <<>>)
  \o (IF data.provider # "" THEN <<OpAttr(span, "gen_ai.system", data.provider)>> ELSE <<>>)
  \o (IF data.model # "" THEN <<OpAttr(span, "gen_ai.response.model", data.model)>> ELSE <<>>)

\* variant: the record stays pending after it was attached to the active span
EnrichActiveOpsKeepPending(sessionKey, evt) ==
  IF sessionKey \in DOMAIN activeAgentSpans
  THEN enrichSpanWithUsage(activeAgentSpans[sessionKey], evt)
  ELSE <<>>

\* "If we have an active agent span for this session, enrich it now"
EnrichActiveOps(sessionKey, evt) ==
  IF sessionKey \in DOMAIN activeAgentSpans
  THEN enrichSpanWithUsage(activeAgentSpans[sessionKey], evt)
       \o <<OpPendingDelete(sessionKey)>>
  ELSE <<>>

\* variant: metrics wait for a live agent turn span
ModelUsageOpsWhenLive(sessionKey, evt) ==
  <<OpPendingSet(sessionKey, PendingUsageData(evt))>>
  \o (IF sessionKey \in DOMAIN activeAgentSpans THEN UsageMetricOps(evt) ELSE <<>>)
  \o EnrichActiveOps(sessionKey, evt)

ModelUsageOps(sessionKey, evt) ==
  <<OpPendingSet(sessionKey, PendingUsageData(evt))>>
  \o UsageMetricOps(evt)
  \o EnrichActiveOps(sessionKey, evt)

\* the listener has no try/catch: what a call throws reaches the emitter
ModelUsageGuarded == "none"

ModelUsageCall(evt, in) ==
  /\ evt.type = "model.usage"
  /\ delivered < in.maxUsage
  /\ LET sessionKey == IF evt.sessionKey # "" THEN evt.sessionKey ELSE "unknown"
         ops == ModelUsageOps(sessionKey, evt)
     IN \E f \in FaultPoints(ops, in.maxFaults) :
          /\ Ran(ops, f, ModelUsageGuarded)
          /\ Seen("usage", sessionKey, f)
  /\ delivered' = delivered + 1
  /\ UNCHANGED <<now, captureContent, lastEnd>>

ModelUsage(in) ==
  \E evt \in in.diagEvents : ModelUsageCall(evt, in)

\* if (evt.type !== "model.usage") return
OtherDiagnostic(in) ==
  \E evt \in in.diagEvents :
    /\ evt.type # "model.usage"
    /\ Ran(<<>>, 0, ModelUsageGuarded)
    /\ Seen("diagnostic", evt.sessionKey, 0)
    /\ UNCHANGED <<now, captureContent, delivered, lastEnd>>

\* ------------------------------------------- command / gateway hooks
CommandOps(sessionKey, action) ==
  LET parentContext == IF sessionKey \in DOMAIN sessionContextMap
                       THEN sessionContextMap[sessionKey].rootContext ELSE 0
      span == -(Len(audits) + 1)
  IN <<OpStart("openclaw.command." \o action, "INTERNAL", parentContext,
               ("openclaw.command.action" :> action)
               @@ ("openclaw.command.session_key" :> sessionKey))>>
     \o (IF action \in {"new", "reset"} THEN <<OpAdd("sessionResets", 1)>> ELSE <<>>)
     \o <<OpStatus(span, "OK"), OpEnd(span)>>

Command(in) ==
  \E ek \in in.auditKeys, action \in in.commands :
    LET sessionKey == IF ek # "" THEN ek ELSE "unknown"
        ops == CommandOps(sessionKey, action)
    IN /\ Len(audits) < in.maxAudit
       /\ \E f \in FaultPoints(ops, in.maxFaults) :
            /\ Ran(ops, f, "all")
            /\ Seen("command", sessionKey, f)
       /\ UNCHANGED <<now, captureContent, delivered, lastEnd>>

GatewayStartupOps ==
  LET span == -(Len(audits) + 1) IN
  <<OpStart("openclaw.gateway.startup", "INTERNAL", 0, ("openclaw.event.type" :> "gateway")),
    OpStatus(span, "OK"), OpEnd(span)>>

GatewayStartup(in) ==
  LET ops == GatewayStartupOps
  IN /\ Len(audits) < in.maxAudit
     /\ \E f \in FaultPoints(ops, in.maxFaults) :
          /\ Ran(ops, f, "all")
          /\ Seen("gateway", "", f)
     /\ UNCHANGED <<now, captureContent, delivered, lastEnd>>

\* ------------------------------------------------- stale-context cleanup
\* maxAge counted in sweep intervals: 5 * 60 * 1000 / 60_000
maxAgeIntervals == 5

\* variant: a context is stale as soon as its age reaches the threshold
IsStaleAtThreshold(ctx) == now - ctx.startTime >= maxAge

\* now - ctx.startTime > maxAge
IsStale(ctx) == now - ctx.startTime > maxAge

\* variant: the sweep ends the agent turn span only
CleanupTryOpsAgentOnly(ctx) ==
  IF ctx.agentSpan # 0 THEN <<OpEnd(ctx.agentSpan)>> ELSE <<>>

\* the body of the try block for one stale context
CleanupTryOps(ctx) ==
  (IF ctx.agentSpan # 0 THEN <<OpEnd(ctx.agentSpan)>> ELSE <<>>)
  \o (IF ctx.rootSpan # ctx.agentSpan THEN <<OpEnd(ctx.rootSpan)>> ELSE <<>>)

\* one context of the sweep: the try block (cut at f when a call throws), then the delete
CleanupOps(key, f) ==
  LET try == CleanupTryOps(sessionContextMap[key]) IN
  (IF f = 0 THEN try ELSE SubSeq(try, 1, f - 1)) \o <<OpCtxDelete(key)>>

\* the whole sweep; in the context faultKey the f-th call of the try block throws
RECURSIVE SweepOps(_, _, _)
SweepOps(keys, faultKey, f) ==
  IF keys = {} THEN <<>>
  ELSE LET key == CHOOSE k \in keys : TRUE IN
       CleanupOps(key, IF key = faultKey THEN f ELSE 0)
       \o SweepOps(keys \ {key}, faultKey, f)

StaleKeys == {k \in DOMAIN sessionContextMap : IsStale(sessionContextMap[k])}

\* one firing of the interval callback, stale being the keys its test selects
Sweep(stale, in) ==
  \E faultKey \in stale \cup {""} :
    \E f \in (IF faultKey = "" THEN {0}
              ELSE FaultPoints(CleanupTryOps(sessionContextMap[faultKey]), in.maxFaults) \ {0}) :
      /\ Ran(SweepOps(stale, faultKey, f), f, "each")
      /\ phase' = [k \in SessionKeys |-> IF k \in stale THEN "other" ELSE phase[k]]
      /\ UNCHANGED <<sideSince, returned>>
      /\ turnStart' = TurnStartNext("sweep", "")
      /\ UNCHANGED <<now, captureContent, delivered, lastEnd>>

StaleCleanup(in) == Sweep(StaleKeys, in)

\* ---- the sweep on its timer: the clock counts sweep intervals (60_000 ms)
\* variant: a context is stale one interval later
IntervalStaleKeysLate ==
  {k \in DOMAIN sessionContextMap : now - sessionContextMap[k].startTime > maxAgeIntervals + 1}

\* now - ctx.startTime > maxAge, in sweep intervals
IntervalStaleKeys ==
  {k \in DOMAIN sessionContextMap : now - sessionContextMap[k].startTime > maxAgeIntervals}

\* the callback fires at every interval boundary
IntervalSweep(in) == Sweep(IntervalStaleKeys, in)

\* an interval passes; the callback of the current boundary has run (it leaves
\* no stale context behind)
IntervalTick(in) ==
  /\ now < in.maxTime
  /\ DOMAIN sessionContextMap # {}
  /\ IntervalStaleKeys = {}
  /\ now' = now + 1
  /\ UNCHANGED <<spans, audits, sessionContextMap, activeAgentSpans, pendingUsageMap, counters,
                 captureContent, faults, hostFault, lastEnd, phase, sideSince, delivered,
                 returned, turnStart>>

\* ------------------------------------------------------------ the clock
\* Date.now() is read to set a context's startTime and to take the age and the
\* duration of a stored context: only time that passes while a context is stored
\* shows
Tick(in) ==
  /\ now < in.maxTime
  /\ DOMAIN sessionContextMap # {}
  /\ now' = now + 1
  /\ UNCHANGED <<spans, audits, sessionContextMap, activeAgentSpans, pendingUsageMap, counters,
                 captureContent, faults, hostFault, lastEnd, phase, sideSince, delivered,
                 returned, turnStart>>

\* ------------------------------------------------------- specification
EmptyMap == [x \in {} |-> 0]

CounterNames ==
  {"messagesReceived", "toolCalls", "toolErrors", "securityEvents", "sessionResets",
   "tokensPrompt", "tokensCompletion", "tokensTotal", "llmRequests", "costUsd",
   "llmDuration", "agentTurnDuration"}

Init(in) ==
  /\ spans = <<>>
  /\ audits = <<>>
  /\ sessionContextMap = EmptyMap
  /\ activeAgentSpans = EmptyMap
  /\ pendingUsageMap = EmptyMap
  /\ counters = [c \in CounterNames |-> 0]
  /\ now = 0
  /\ captureContent \in in.captureContent
  /\ faults = 0
  /\ hostFault = FALSE
  /\ lastEnd = EndRecord(0, 0, <<>>, 0, FALSE, 0)
  /\ phase = [k \in SessionKeys |-> "init"]
  /\ sideSince = [k \in SessionKeys |-> 0]
  /\ delivered = 0
  /\ returned = "none"
  /\ turnStart = [k \in SessionKeys |-> 0]

Next(in) ==
  \/ MessageReceived(in)
  \/ BeforeAgentStart(in)
  \/ ToolResultPersist(in)
  \/ AgentEnd(in)
  \/ ModelUsage(in)
  \/ OtherDiagnostic(in)
  \/ Command(in)
  \/ GatewayStartup(in)
  \/ StaleCleanup(in)
  \/ Tick(in)

\* the handlers, and the sweep on its timer
ReaperNext(in) ==
  \/ MessageReceived(in)
  \/ BeforeAgentStart(in)
  \/ ToolResultPersist(in)
  \/ AgentEnd(in)
  \/ ModelUsage(in)
  \/ OtherDiagnostic(in)
  \/ Command(in)
  \/ GatewayStartup(in)
  \/ IntervalSweep(in)
  \/ IntervalTick(in)

\* a turn-start that finds no context runs only while the clock leaves room for
\* its context to grow stale
TimelyBeforeAgentStart(in) ==
  \E ek \in in.keyFields, ck \in in.keyFields, agentId \in AgentIds, model \in Models :
    /\ HasContext(ResolveKey(ek, ck)) \/ now + maxAge < in.maxTime
    /\ BeforeAgentStartCall(ek, ck, agentId, model, in)

\* the handlers, the sweep and the clock, every context having time to grow stale
LiveNext(in) ==
  \/ MessageReceived(in)
  \/ TimelyBeforeAgentStart(in)
  \/ ToolResultPersist(in)
  \/ AgentEnd(in)
  \/ ModelUsage(in)
  \/ OtherDiagnostic(in)
  \/ Command(in)
  \/ GatewayStartup(in)
  \/ StaleCleanup(in)
  \/ Tick(in)

\* ---- the inputs and bounds each specification draws from
\* two session keys (one is the "unknown" fallback); one payload of each kind
LifecycleInputs ==
  [keyFields |-> {"", "s1"}, auditKeys |-> {"s1"},
   detected |-> {FALSE},
   toolEvents |-> {ToolEvt("Read", FALSE, <<ToolMsg(FALSE, 1, 2)>>)},
   endEvents |-> {EndEvt("false", "boom", 1)},
   transcripts |-> {2},
   diagEvents |-> DiagEvents({"s1"}, {1}),
   commands |-> {"new"},
   captureContent |-> {FALSE},
   maxSpans |-> MaxSpans, maxAudit |-> MaxAudit, maxUsage |-> MaxUsage, maxTime |-> MaxTime,
   maxFaults |-> 0]

\* one session key; every transcript and usage record; content capture on and off
UsageInputs ==
  [keyFields |-> {"s1"}, auditKeys |-> {"s1"},
   detected |-> {FALSE},
   toolEvents |-> {ToolEvt("Read", FALSE, <<ToolMsg(FALSE, 1, 2)>>)},
   endEvents |-> {EndEvt("absent", "", Absent), EndEvt("false", "boom", 1)},
   transcripts |-> 1..Len(Transcripts),
   diagEvents |-> DiagEvents({"s1"}, {1, 2}),
   commands |-> {"new"},
   captureContent |-> BOOLEAN,
   maxSpans |-> MaxTurnSpans, maxAudit |-> MaxAudit, maxUsage |-> MaxTurnUsage,
   maxTime |-> MaxTime, maxFaults |-> 0]

\* as LifecycleInputs, with primitive calls that throw
FaultInputs ==
  [LifecycleInputs EXCEPT !.keyFields = {"s1"}, !.maxSpans = MaxFaultSpans,
                          !.maxFaults = MaxFaults]

\* one session key; the events of a turn with a successful and a failing tool
\* result and a turn-end that reports an error
ScenarioInputs ==
  [LifecycleInputs EXCEPT
     !.keyFields = {"s1"},
     !.toolEvents = {ToolEvt("Read", FALSE, <<ToolMsg(FALSE, 1, 2)>>),
                     ToolEvt("exec", FALSE, <<ToolMsg(TRUE, Absent, 0)>>)},
     !.endEvents = {EndEvt("false", "boom", 1)},
     !.transcripts = {5}]

\* one session key; every kind of tool result, with and without a detection, and
\* every combination of success flag and error message at turn-end
ToolInputs ==
  [ScenarioInputs EXCEPT !.toolEvents = ToolEvents, !.endEvents = EndEvents,
                         !.maxSpans = MaxFaultSpans]

\* two session keys; the clock counts sweep intervals
ReaperInputs == [LifecycleInputs EXCEPT !.maxTime = MaxIntervals]

\* the primitives never throw; two sessions
Spec == Init(LifecycleInputs) /\ [][Next(LifecycleInputs)]_vars

\* the primitives never throw; one session, every usage source
UsageSpec == Init(UsageInputs) /\ [][Next(UsageInputs)]_vars

\* the primitives never throw; one session, two kinds of tool result
ScenarioSpec == Init(ScenarioInputs) /\ [][Next(ScenarioInputs)]_vars

\* the primitives never throw; one session, every kind of tool result
ToolSpec == Init(ToolInputs) /\ [][Next(ToolInputs)]_vars

\* the primitives never throw; two sessions; the sweep fires every interval
ReaperSpec == Init(ReaperInputs) /\ [][ReaperNext(ReaperInputs)]_vars

\* one session key; the spans of two turn-starts
LiveInputs == [LifecycleInputs EXCEPT !.keyFields = {"s1"}, !.maxSpans = MaxFaultSpans]

\* the primitives never throw; time passes and the interval callback keeps firing
LiveSpec ==
  /\ Init(LiveInputs)
  /\ [][LiveNext(LiveInputs)]_vars
  /\ WF_vars(Tick(LiveInputs))
  /\ WF_vars(StaleCleanup(LiveInputs))

\* at most MaxFaults primitive calls throw
FaultSpec == Init(FaultInputs) /\ [][Next(FaultInputs)]_vars

\* ================================================================ properties
\* the spans of the request / agent turn / tool tree that carry sessionKey k
SpansOf(name, k) ==
  {i \in 1..Len(spans) :
     spans[i].name = name /\ spans[i].attrs["openclaw.session.key"] = k}
RootSpansOf(k) == SpansOf("openclaw.request", k)
AgentSpansOf(k) == SpansOf("openclaw.agent.turn", k)
ToolSpansOf(k) ==
  {i \in 1..Len(spans) :
     /\ "openclaw.tool.name" \in DOMAIN spans[i].attrs
     /\ spans[i].attrs["openclaw.session.key"] = k}

\* C1: a session that has seen turn-start, N tool executions and (then) turn-end,
\* and nothing else, has exactly one root span and exactly one agent span; both
\* are open until the turn-end and ended exactly once by it; every tool span of
\* the session has the agent span as its parent.
SingleTurnTrace ==
  \A k \in SessionKeys :
    phase[k] \in {"t1", "e1"} =>
      /\ Cardinality(RootSpansOf(k)) = 1
      /\ Cardinality(AgentSpansOf(k)) = 1
      /\ \A i \in RootSpansOf(k) \cup AgentSpansOf(k) :
           spans[i].ends = IF phase[k] = "e1" THEN 1 ELSE 0
      /\ \A t \in ToolSpansOf(k) : \A a \in AgentSpansOf(k) :
           spans[t].parent = a /\ spans[t].ends = 1

SingleTurnTraceWitness ==
  \E k \in SessionKeys :
    /\ phase[k] = "e1"
    /\ Cardinality(ToolSpansOf(k)) >= 2
    /\ \E r \in RootSpansOf(k) : spans[r].ends = 1

NewestRootBefore(k, a) ==
  CHOOSE r \in RootSpansOf(k) : r < a /\ \A q \in RootSpansOf(k) : q < a => q <= r

OneOpenRootPerKey ==
  /\ DOMAIN sessionContextMap \subseteq SessionKeys
  /\ \A k \in SessionKeys :
       LET open == {r \in RootSpansOf(k) : spans[r].ends = 0} IN
       /\ Cardinality(open) <= 1
       /\ open = IF k \in DOMAIN sessionContextMap
                 THEN {sessionContextMap[k].rootSpan} ELSE {}
  /\ \A k, j \in DOMAIN sessionContextMap :
       k # j => sessionContextMap[k].rootSpan # sessionContextMap[j].rootSpan

OneOpenRootPerKeyWitness ==
  \E k \in DOMAIN sessionContextMap :
    \E r \in RootSpansOf(k) :
      /\ r # sessionContextMap[k].rootSpan
      /\ spans[r].ends = 1
      /\ spans[sessionContextMap[k].rootSpan].ends = 0

\* C10: the agent span of every stored context was started with that context's
\* root span as its parent: it has a parent, and the parent carries the same
\* sessionKey.
AgentUnderOwnRoot ==
  \A k \in DOMAIN sessionContextMap :
    LET ctx == sessionContextMap[k] IN
    ctx.agentSpan # 0 =>
      /\ spans[ctx.agentSpan].name = "openclaw.agent.turn"
      /\ spans[ctx.agentSpan].parent # 0
      /\ spans[ctx.agentSpan].parent = ctx.rootSpan
      /\ spans[ctx.agentSpan].parent \in RootSpansOf(k)

AgentUnderOwnRootWitness ==
  \E k, j \in DOMAIN sessionContextMap :
    /\ k # j
    /\ sessionContextMap[k].agentSpan # 0
    /\ sessionContextMap[j].agentSpan # 0

\* C7: a sweep removes from the store every context whose startTime is more than
\* the threshold ago, and ends its agent span and its root span; a turn-start
\* for a key the store has no context for (as after the sweep) starts a root
\* span that did not exist before, and stores it open.
StaleContextReaped ==
  [][ /\ StaleCleanup(LifecycleInputs) =>
           \A k \in DOMAIN sessionContextMap :
             LET ctx == sessionContextMap[k] IN
             now - ctx.startTime > maxAge =>
               /\ k \notin DOMAIN sessionContextMap'
               /\ spans'[ctx.rootSpan].ends = spans[ctx.rootSpan].ends + 1
               /\ ctx.agentSpan # 0 =>
                    spans'[ctx.agentSpan].ends = spans[ctx.agentSpan].ends + 1
      /\ \A ek \in LifecycleInputs.keyFields, ck \in LifecycleInputs.keyFields,
            agentId \in AgentIds, model \in Models :
           (/\ BeforeAgentStartCall(ek, ck, agentId, model, LifecycleInputs)
            /\ ResolveKey(ek, ck) \notin DOMAIN sessionContextMap) =>
             LET root == sessionContextMap'[ResolveKey(ek, ck)].rootSpan IN
             /\ root \notin 1..Len(spans)
             /\ spans'[root].name = "openclaw.request"
             /\ spans'[root].ends = 0
    ]_vars

\* a root span ended by the sweep (no turn-end gave it a duration), and the same
\* key stored again with another, open, root span
StaleContextReapedWitness ==
  \E k \in DOMAIN sessionContextMap :
    \E r \in RootSpansOf(k) :
      /\ r # sessionContextMap[k].rootSpan
      /\ spans[r].ends = 1
      /\ "openclaw.request.duration_ms" \notin DOMAIN spans[r].attrs
      /\ spans[sessionContextMap[k].rootSpan].ends = 0

\* ---- usage reconciliation
\* the assistant messages of transcript tr that carry usage
UsageMessages(tr) ==
  {i \in 1..Len(Transcripts[tr]) :
     Transcripts[tr][i].role = "assistant" /\ Transcripts[tr][i].usage # <<>>}

\* one token count of a message's usage, under whichever spelling it has
MessageTokens(m, field) ==
  LET u == m.usage[1] IN
  CASE field = "input" ->
         IF u.input # Absent THEN u.input
         ELSE IF u.inputTokens # Absent THEN u.inputTokens
         ELSE IF u.input_tokens # Absent THEN u.input_tokens ELSE 0
    [] field = "output" ->
         IF u.output # Absent THEN u.output
         ELSE IF u.outputTokens # Absent THEN u.outputTokens
         ELSE IF u.output_tokens # Absent THEN u.output_tokens ELSE 0
    [] field = "cacheRead" -> IF u.cacheRead # Absent THEN u.cacheRead ELSE 0
    [] field = "cacheWrite" -> IF u.cacheWrite # Absent THEN u.cacheWrite ELSE 0

\* the sum of a token count over the messages at the indices in is
RECURSIVE SumTokens(_, _, _)
SumTokens(tr, is, field) ==
  IF is = {} THEN 0
  ELSE LET i == CHOOSE x \in is : TRUE IN
       MessageTokens(Transcripts[tr][i], field) + SumTokens(tr, is \ {i}, field)

TranscriptSum(tr, field) == SumTokens(tr, UsageMessages(tr), field)

\* the attribute of a span, or Absent when it was never set
AttrOf(span, name) ==
  IF name \in DOMAIN spans[span].attrs THEN spans[span].attrs[name] ELSE Absent

\* C2: the usage metrics of a turn are recorded exactly once. At the turn-end of
\* a turn (one that followed its turn-start): when usage records were delivered
\* for the session since the previous turn-end, the listener has recorded them
\* and turn-end records nothing; when none was delivered and the transcript
\* carries usage, turn-end records one request.
UsageMetricsOncePerTurn ==
  lastEnd.open =>
    /\ lastEnd.side > 0 => lastEnd.recorded = 0
    /\ (lastEnd.side = 0 /\ TranscriptSum(lastEnd.tr, "input")
                            + TranscriptSum(lastEnd.tr, "output") > 0) =>
         lastEnd.recorded = 1

UsageRecordCountedOnce ==
  [][ \A evt \in UsageInputs.diagEvents :
        ModelUsageCall(evt, UsageInputs) =>
          LET Count(x) == IF x = Absent THEN 0 ELSE x IN
          /\ counters'["llmRequests"] = counters["llmRequests"] + 1
          /\ counters'["tokensPrompt"] = counters["tokensPrompt"] + Count(evt.usage.input)
               + Count(evt.usage.cacheRead) + Count(evt.usage.cacheWrite)
          /\ counters'["tokensCompletion"] = counters["tokensCompletion"]
               + Count(evt.usage.output)
          /\ counters'["tokensTotal"] = counters["tokensTotal"] + Count(evt.usage.total)
          /\ counters'["costUsd"] = counters["costUsd"] + Count(evt.costUsd)
          /\ hostFault' = hostFault
    ]_vars

\* a record received after the session's turn-end: counted, and kept pending,
\* with no context and no live agent span
UsageRecordCountedOnceWitness ==
  \E k \in SessionKeys :
    /\ phase[k] = "e1"
    /\ sideSince[k] = 1
    /\ k \notin DOMAIN sessionContextMap
    /\ k \notin DOMAIN activeAgentSpans
    /\ k \in DOMAIN pendingUsageMap
    /\ counters["llmRequests"] = delivered
    /\ delivered >= 1

\* ---- faults
\* C8: no call that throws inside a handler reaches the host.
NoFaultReachesHost == hostFault = FALSE

\* C11: no stored context is half-initialized: every stored SessionTraceContext
\* has an agent span attached, also after a turn-start in which a call threw.
NoRootOnlyContext ==
  \A k \in DOMAIN sessionContextMap : sessionContextMap[k].agentSpan # 0

\* C12: while content capture is disabled no span carries a prompt or a
\* completion attribute, whatever the transcripts given to turn-end hold.
NoContentWhenCaptureDisabled ==
  ~captureContent =>
    \A i \in 1..Len(spans) :
      /\ "gen_ai.prompt" \notin DOMAIN spans[i].attrs
      /\ "gen_ai.completion" \notin DOMAIN spans[i].attrs

\* capture is disabled and a turn has ended on a transcript whose last user and
\* assistant messages both have text
NoContentWhenCaptureDisabledWitness ==
  /\ ~captureContent
  /\ lastEnd.span # 0
  /\ spans[lastEnd.span].ends = 1
  /\ ContentLength(LastWithRole(Transcripts[lastEnd.tr], "user")) > 0
  /\ ContentLength(LastWithRole(Transcripts[lastEnd.tr], "assistant")) > 0

\* ---- the worked scenario
\* the tool spans of session k, in creation order, as their tool names
RECURSIVE ToolNamesFrom(_, _)
ToolNamesFrom(k, i) ==
  IF i > Len(spans) THEN <<>>
  ELSE (IF i \in ToolSpansOf(k) THEN <<spans[i].attrs["openclaw.tool.name"]>> ELSE <<>>)
       \o ToolNamesFrom(k, i + 1)

\* session s1 has seen exactly turn-start, tool Read (result ok), tool exec
\* (result flagged erroneous), turn-end(success false, error boom) on the
\* transcript with one assistant message of usage input 10, output 5; no usage
\* record was delivered for the turn
ScenarioRan ==
  /\ phase["s1"] = "e1"
  /\ ToolNamesFrom("s1", 1) = <<"Read", "exec">>
  /\ lastEnd.span \in AgentSpansOf("s1")
  /\ lastEnd.tr = 5
  /\ lastEnd.side = 0
  /\ lastEnd.diagUsage = <<>>

\* C13: after that scenario the root span is ended and has a duration
\* attribute; the agent span is ended with status ERROR, the error message,
\* input_tokens 10, output_tokens 5, total_tokens 15; there are two tool spans
\* and the second has status ERROR; the store has no entry for s1.
ScenarioOutcome ==
  ScenarioRan =>
    /\ \A r \in RootSpansOf("s1") :
         /\ spans[r].ends = 1
         /\ "openclaw.request.duration_ms" \in DOMAIN spans[r].attrs
    /\ \A a \in AgentSpansOf("s1") :
         /\ spans[a].ends = 1
         /\ spans[a].status = "ERROR"
         /\ AttrOf(a, "openclaw.agent.error") = "boom"
         /\ AttrOf(a, "gen_ai.usage.input_tokens") = 10
         /\ AttrOf(a, "gen_ai.usage.output_tokens") = 5
         /\ AttrOf(a, "gen_ai.usage.total_tokens") = 15
    /\ Cardinality(RootSpansOf("s1")) = 1
    /\ Cardinality(AgentSpansOf("s1")) = 1
    /\ Cardinality(ToolSpansOf("s1")) = 2
    /\ \A t \in ToolSpansOf("s1") :
         /\ spans[t].ends = 1
         /\ spans[t].status = IF spans[t].attrs["openclaw.tool.name"] = "exec"
                              THEN "ERROR" ELSE "OK"
    /\ "s1" \notin DOMAIN sessionContextMap

ScenarioOutcomeWitness ==
  /\ ScenarioRan
  /\ Len(spans) = 4
  /\ spans[4].status = "ERROR"
  /\ spans[2].status = "ERROR"
  /\ spans[1].ends = 1

CarriesUsage(span, usage) ==
  /\ usage.input # Absent => "gen_ai.usage.input_tokens" \in DOMAIN span.attrs
                              /\ span.attrs["gen_ai.usage.input_tokens"] = usage.input
  /\ usage.output # Absent => "gen_ai.usage.output_tokens" \in DOMAIN span.attrs
                               /\ span.attrs["gen_ai.usage.output_tokens"] = usage.output
  /\ usage.total # Absent => "gen_ai.usage.total_tokens" \in DOMAIN span.attrs
                              /\ span.attrs["gen_ai.usage.total_tokens"] = usage.total
  /\ usage.cacheRead # Absent => "gen_ai.usage.cache_read_tokens" \in DOMAIN span.attrs
                                  /\ span.attrs["gen_ai.usage.cache_read_tokens"] = usage.cacheRead
  /\ usage.cacheWrite # Absent => "gen_ai.usage.cache_write_tokens" \in DOMAIN span.attrs
                                   /\ span.attrs["gen_ai.usage.cache_write_tokens"] = usage.cacheWrite

\* C15: when a usage record is received for a session with an agent span
\* registered in the side-table, that span carries the record's usage
\* attributes afterwards and no pending record exists for the session; with no
\* agent span registered, a pending record with the record's values exists
\* afterwards.
UsageRecordAttachedOrPending ==
  [][ \A evt \in UsageInputs.diagEvents :
        ModelUsageCall(evt, UsageInputs) =>
          IF evt.sessionKey \in DOMAIN activeAgentSpans
          THEN /\ CarriesUsage(spans'[activeAgentSpans[evt.sessionKey]], evt.usage)
               /\ evt.sessionKey \notin DOMAIN pendingUsageMap'
          ELSE /\ evt.sessionKey \in DOMAIN pendingUsageMap'
               /\ pendingUsageMap'[evt.sessionKey].usage = evt.usage
               /\ pendingUsageMap'[evt.sessionKey].costUsd = evt.costUsd
               /\ pendingUsageMap'[evt.sessionKey].context = evt.context
    ]_vars

\* C16: a turn-end in which no call throws leaves, for its session key, no
\* context in the store, no entry in the side-table and no pending usage
\* record, whether the store held a full context, a root-only context or none.
TurnEndClearsSession ==
  [][ \A ek \in FaultInputs.keyFields, ck \in FaultInputs.keyFields,
         evt \in FaultInputs.endEvents, tr \in FaultInputs.transcripts :
        (AgentEndCall(ek, ck, evt, tr, FaultInputs) /\ faults' = faults) =>
          /\ ResolveKey(ek, ck) \notin DOMAIN sessionContextMap'
          /\ ResolveKey(ek, ck) \notin DOMAIN activeAgentSpans'
          /\ ResolveKey(ek, ck) \notin DOMAIN pendingUsageMap'
    ]_vars

\* a turn-end has closed the root span of a root-only context (its turn-start
\* threw before the agent span existed) and removed the context
TurnEndClearsSessionWitness ==
  \E k \in SessionKeys :
    /\ AgentSpansOf(k) = {}
    /\ \E r \in RootSpansOf(k) :
         /\ spans[r].ends = 1
         /\ "openclaw.request.duration_ms" \in DOMAIN spans[r].attrs
    /\ k \notin DOMAIN sessionContextMap
    /\ k \notin DOMAIN activeAgentSpans
    /\ k \notin DOMAIN pendingUsageMap
    /\ delivered > 0

\* ---- the audit span of message_received
\* C17: a message_received step leaves the session context store, the
\* side-table and the pending-usage buffer unchanged and starts one span, which
\* is ended when the handler returns; no span ever has a message span (or
\* any other audit span) as its parent.
MessageReceivedAnchorsNothing ==
  [][ /\ MessageReceived(LifecycleInputs) =>
           /\ sessionContextMap' = sessionContextMap
           /\ activeAgentSpans' = activeAgentSpans
           /\ pendingUsageMap' = pendingUsageMap
           /\ spans' = spans
           /\ Len(audits') = Len(audits) + 1
           /\ SubSeq(audits', 1, Len(audits)) = audits
           /\ audits'[Len(audits')].name = "openclaw.message.received"
           /\ audits'[Len(audits')].ends = 1
      /\ \A i \in 1..Len(spans') : spans'[i].parent >= 0
      /\ \A i \in 1..Len(audits') : audits'[i].parent >= 0
      /\ \A k \in DOMAIN sessionContextMap' :
           /\ sessionContextMap'[k].rootContext > 0
           /\ sessionContextMap'[k].agentContext >= 0
    ]_vars

\* a turn started after a message was received for the same session key: its
\* root span is a request span of its own, with no parent
MessageReceivedAnchorsNothingWitness ==
  \E i \in 1..Len(audits) : \E k \in DOMAIN sessionContextMap :
    /\ audits[i].name = "openclaw.message.received"
    /\ audits[i].attrs["openclaw.session.key"] = k
    /\ audits[i].ends = 1
    /\ spans[sessionContextMap[k].rootSpan].name = "openclaw.request"
    /\ spans[sessionContextMap[k].rootSpan].parent = 0

\* ---- tool spans
\* C18: a tool_result_persist step in which no call throws starts one tool
\* span; its parent is the agent span of the context stored for its key when
\* that context has one, else the context's root span, else nothing when no
\* context is stored; the lookup miss raises nothing.
ToolParentSelection ==
  [][ (ToolResultPersist(FaultInputs) /\ faults' = faults) =>
        /\ Len(spans') = Len(spans) + 1
        /\ LET t == spans'[Len(spans')]
               k == t.attrs["openclaw.session.key"]
           IN /\ "openclaw.tool.name" \in DOMAIN t.attrs
              /\ t.parent = IF k \notin DOMAIN sessionContextMap THEN 0
                            ELSE IF sessionContextMap[k].agentSpan # 0
                                 THEN sessionContextMap[k].agentSpan
                                 ELSE sessionContextMap[k].rootSpan
        /\ hostFault' = hostFault
    ]_vars

\* one tool span started with no context stored, and one started under the root
\* span of a root-only context
ToolParentSelectionWitness ==
  \E k \in SessionKeys : \E t1, t2 \in ToolSpansOf(k) :
    /\ spans[t1].parent = 0
    /\ spans[t2].parent \in RootSpansOf(k)
    /\ spans[t1].ends = 1
    /\ spans[t2].ends = 1

\* C19: no tool span is open between handler invocations: every tool span that
\* exists has been ended, also when a call between its start and its end threw.
ToolSpansNeverLeftOpen ==
  \A i \in 1..Len(spans) :
    "openclaw.tool.name" \in DOMAIN spans[i].attrs => spans[i].ends = 1

\* C20: a tool_result_persist step in which no call throws leaves its tool span
\* ended with status ERROR when the result is flagged erroneous, with status OK
\* when the result is not flagged erroneous and the security check reported no
\* detection, and with the status the detection set (never OK) when the check
\* reported a detection and the result is not flagged erroneous.
ToolStatusFollowsResult ==
  [][ \A ck \in ToolInputs.keyFields, agentId \in AgentIds, evt \in ToolEvents :
        ToolResultPersistCall(ck, agentId, evt, ToolInputs) =>
          LET t == spans'[Len(spans')]
              erroneous == evt.message # <<>> /\ evt.message[1].isError
          IN /\ Len(spans') = Len(spans) + 1
             /\ t.ends = 1
             /\ erroneous => t.status = "ERROR"
             /\ (~erroneous /\ ~evt.detected) => t.status = "OK"
             /\ (~erroneous /\ evt.detected) => t.status = "ERROR"
    ]_vars

\* a tool result with a detection and no error flag, one flagged erroneous and
\* one with neither have been handled
ToolStatusFollowsResultWitness ==
  \E a, b, c \in 1..Len(spans) :
    /\ "openclaw.tool.input_preview" \in DOMAIN spans[a].attrs
    /\ spans[a].status = "ERROR"
    /\ counters["toolErrors"] = 1
    /\ counters["securityEvents"] = 1
    /\ "openclaw.tool.name" \in DOMAIN spans[b].attrs
    /\ spans[b].status = "ERROR"
    /\ "openclaw.tool.input_preview" \notin DOMAIN spans[b].attrs
    /\ "openclaw.tool.name" \in DOMAIN spans[c].attrs
    /\ spans[c].status = "OK"
    /\ \A i \in {a, b, c} : spans[i].ends = 1

\* C21: an agent span ended by a turn-end has status ERROR exactly when the
\* event's success flag was false (the span's openclaw.agent.success attribute is
\* FALSE) and status OK exactly when it was not, whatever the error message.
AgentStatusFromSuccessFlag ==
  \A i \in 1..Len(spans) :
    (/\ spans[i].name = "openclaw.agent.turn"
     /\ spans[i].ends = 1
     /\ "openclaw.agent.success" \in DOMAIN spans[i].attrs)
    => /\ (spans[i].status = "ERROR") <=> (spans[i].attrs["openclaw.agent.success"] = FALSE)
       /\ (spans[i].status = "OK") <=> (spans[i].attrs["openclaw.agent.success"] = TRUE)

\* the cache tokens a turn-end takes from its usage source: the pending record
\* it found, else the transcript
SourceCacheTokens(end, field) ==
  IF end.diagUsage # <<>>
  THEN (IF end.diagUsage[1].usage[field] = Absent THEN 0 ELSE end.diagUsage[1].usage[field])
  ELSE TranscriptSum(end.tr, field)

\* C22: the total_tokens attribute a turn-end sets on the agent span is the sum
\* of the input and output token attributes it set and of the cache-read and
\* cache-write tokens of the same source, pending record or transcript.
TotalIsSumOfCategories ==
  lastEnd.span # 0 =>
    AttrOf(lastEnd.span, "gen_ai.usage.total_tokens")
      = AttrOf(lastEnd.span, "gen_ai.usage.input_tokens")
        + AttrOf(lastEnd.span, "gen_ai.usage.output_tokens")
        + SourceCacheTokens(lastEnd, "cacheRead")
        + SourceCacheTokens(lastEnd, "cacheWrite")

\* a turn-end attached a pending record that has cache tokens
TotalIsSumOfCategoriesWitness ==
  /\ lastEnd.span # 0
  /\ lastEnd.diagUsage # <<>>
  /\ spans[lastEnd.span].ends = 1
  /\ SourceCacheTokens(lastEnd, "cacheRead") > 0
  /\ AttrOf(lastEnd.span, "gen_ai.usage.total_tokens")
       > AttrOf(lastEnd.span, "gen_ai.usage.input_tokens")
         + AttrOf(lastEnd.span, "gen_ai.usage.output_tokens")

\* C23: when turn-end found a pending usage record that carries a total token
\* count, the total_tokens attribute of the agent span is the record's total; the
\* sum of the four categories is used only when the record has no total.
RecordTotalAuthoritative ==
  (lastEnd.span # 0 /\ lastEnd.diagUsage # <<>>
   /\ lastEnd.diagUsage[1].usage.total # Absent) =>
    AttrOf(lastEnd.span, "gen_ai.usage.total_tokens") = lastEnd.diagUsage[1].usage.total

\* C24: a turn-end for a key with a stored context removes the context and the
\* side-table entry of the key in the same invocation, also when one of its calls
\* threw; and when the agent span was left un-ended by a call that threw, the root
\* span is ended all the same.
TurnEndStepsGuarded ==
  [][ \A ek \in FaultInputs.keyFields, ck \in FaultInputs.keyFields,
         evt \in FaultInputs.endEvents, tr \in FaultInputs.transcripts :
        LET k == ResolveKey(ek, ck) IN
        (AgentEndCall(ek, ck, evt, tr, FaultInputs) /\ k \in DOMAIN sessionContextMap) =>
          LET ctx == sessionContextMap[k] IN
          /\ k \notin DOMAIN sessionContextMap'
          /\ k \notin DOMAIN activeAgentSpans'
          /\ (ctx.agentSpan # 0 /\ spans'[ctx.agentSpan].ends = 0) =>
               spans'[ctx.rootSpan].ends = 1
    ]_vars

\* C25: with the sweep firing at every interval, the store never holds a context
\* older than the staleness threshold plus one interval, and a root span is
\* open only while its context is stored: a context that sees no turn-end is
\* removed, and its root span ended, at most threshold plus interval after its
\* startTime.
StaleContextBounded ==
  /\ \A k \in DOMAIN sessionContextMap :
       now - sessionContextMap[k].startTime <= maxAgeIntervals + 1
  /\ \A i \in 1..Len(spans) :
       (spans[i].name = "openclaw.request" /\ spans[i].ends = 0) =>
         \E k \in DOMAIN sessionContextMap : sessionContextMap[k].rootSpan = i

\* a context that reached threshold plus interval with no turn-end is gone, its
\* spans ended by the sweep, while a younger context is still stored
StaleContextBoundedWitness ==
  \E k \in SessionKeys, j \in DOMAIN sessionContextMap :
    /\ k \notin DOMAIN sessionContextMap
    /\ now > maxAgeIntervals
    /\ \E r \in RootSpansOf(k) :
         /\ spans[r].ends = 1
         /\ "openclaw.request.duration_ms" \notin DOMAIN spans[r].attrs
    /\ now - sessionContextMap[j].startTime \in 1..maxAgeIntervals

\* C26: a sweep leaves every context whose age does not exceed the threshold in
\* the store, with the same root and agent spans and the same startTime, and
\* ends neither of its spans.
SweepKeepsFreshContexts ==
  [][ StaleCleanup(LifecycleInputs) =>
        \A k \in DOMAIN sessionContextMap :
          LET ctx == sessionContextMap[k] IN
          now - ctx.startTime <= maxAge =>
            /\ k \in DOMAIN sessionContextMap'
            /\ sessionContextMap'[k] = ctx
            /\ spans'[ctx.rootSpan] = spans[ctx.rootSpan]
            /\ ctx.agentSpan # 0 => spans'[ctx.agentSpan] = spans[ctx.agentSpan]
    ]_vars

\* a sweep has reaped one context and kept another whose age is the threshold
SweepKeepsFreshContextsWitness ==
  \E k \in SessionKeys, j \in DOMAIN sessionContextMap :
    /\ k \notin DOMAIN sessionContextMap
    /\ \E r \in RootSpansOf(k) :
         /\ spans[r].ends = 1
         /\ "openclaw.request.duration_ms" \notin DOMAIN spans[r].attrs
    /\ now - sessionContextMap[j].startTime = maxAge
    /\ spans[sessionContextMap[j].rootSpan].ends = 0
    /\ spans[sessionContextMap[j].agentSpan].ends = 0

\* C27: a turn-start for a key whose context is stored starts one span, an agent
\* span under the stored root span, and no root span; the context keeps its
\* rootSpan, rootContext and startTime, its agentSpan and agentContext become the
\* new span, and the side-table entry of the key is the new span.
TurnStartReusesContext ==
  [][ \A ek \in LifecycleInputs.keyFields, ck \in LifecycleInputs.keyFields,
         agentId \in AgentIds, model \in Models :
        LET k == ResolveKey(ek, ck) IN
        (BeforeAgentStartCall(ek, ck, agentId, model, LifecycleInputs)
         /\ k \in DOMAIN sessionContextMap) =>
          LET old == sessionContextMap[k]
              new == sessionContextMap'[k]
              a == Len(spans) + 1
          IN /\ Len(spans') = a
             /\ spans'[a].name = "openclaw.agent.turn"
             /\ spans'[a].parent = old.rootSpan
             /\ spans'[a].ends = 0
             /\ new.rootSpan = old.rootSpan
             /\ new.rootContext = old.rootContext
             /\ new.startTime = old.startTime
             /\ new.agentSpan = a
             /\ new.agentContext = a
             /\ a # old.agentSpan
             /\ k \in DOMAIN activeAgentSpans'
             /\ activeAgentSpans'[k] = a
    ]_vars

\* a second turn-start found the context stored by the first, some time later
TurnStartReusesContextWitness ==
  \E k \in DOMAIN sessionContextMap :
    LET ctx == sessionContextMap[k] IN
    /\ Cardinality(RootSpansOf(k)) = 1
    /\ Cardinality({a \in AgentSpansOf(k) : spans[a].parent = ctx.rootSpan}) = 2
    /\ ctx.agentSpan > ctx.rootSpan + 1
    /\ activeAgentSpans[k] = ctx.agentSpan
    /\ now > ctx.startTime

\* C28: a tool_result_persist step leaves the session context store, the agent
\* span side-table and the pending-usage buffer as they were, whatever its input
\* and also when one of its calls threw.
ToolHandlerKeepsContextState ==
  [][ ToolResultPersist(FaultInputs) =>
        /\ sessionContextMap' = sessionContextMap
        /\ activeAgentSpans' = activeAgentSpans
        /\ pendingUsageMap' = pendingUsageMap
    ]_vars

\* a tool span left open by a call that threw, under the agent span of a context
\* that is still stored and registered, with a usage record pending
ToolHandlerKeepsContextStateWitness ==
  \E k \in DOMAIN sessionContextMap : \E t \in ToolSpansOf(k) :
    /\ spans[t].ends = 0
    /\ faults = 1
    /\ sessionContextMap[k].agentSpan = spans[t].parent
    /\ spans[t].parent # 0
    /\ k \in DOMAIN activeAgentSpans
    /\ activeAgentSpans[k] = spans[t].parent
    /\ k \in DOMAIN pendingUsageMap

\* C29: every before_agent_start and every tool_result_persist invocation
\* returns undefined to the host, whatever the event and also when a call threw
\* and the error was caught.
HooksReturnUndefined ==
  [][ (BeforeAgentStart(FaultInputs) \/ ToolResultPersist(FaultInputs)) =>
        returned' = "undefined"
    ]_vars

\* a handler returned after a caught error: no agent span was stored, or a tool
\* span was left open
HooksReturnUndefinedWitness ==
  /\ returned = "undefined"
  /\ faults = 1
  /\ \/ \E k \in DOMAIN sessionContextMap : sessionContextMap[k].agentSpan = 0
     \/ \E i \in 1..Len(spans) :
          "openclaw.tool.name" \in DOMAIN spans[i].attrs /\ spans[i].ends = 0

\* a stored context as a complete handler leaves it: root and agent span open,
\* the agent span under the root span and registered in the side-table
ContextComplete(k) ==
  LET ctx == sessionContextMap[k] IN
  /\ ctx.rootSpan # 0
  /\ spans[ctx.rootSpan].ends = 0
  /\ ctx.agentSpan # 0
  /\ spans[ctx.agentSpan].ends = 0
  /\ spans[ctx.agentSpan].parent = ctx.rootSpan
  /\ k \in DOMAIN activeAgentSpans
  /\ activeAgentSpans[k] = ctx.agentSpan

\* C30: the handlers and the sweep run to completion one at a time, so what any
\* of them finds is never half-updated: every stored context is complete (no
\* turn-start is seen between storing the root and storing the agent span, no
\* turn-end or sweep between ending the spans and deleting the entry); a
\* turn-end leaves no context, side-table entry or pending record for its key;
\* and a usage record delivered while an agent span is registered leaves no
\* pending record.
HandlersRunToCompletion ==
  [][ /\ \A k \in DOMAIN sessionContextMap' : ContextComplete(k)'
      /\ \A ek \in LifecycleInputs.keyFields, ck \in LifecycleInputs.keyFields,
            evt \in LifecycleInputs.endEvents, tr \in LifecycleInputs.transcripts :
           AgentEndCall(ek, ck, evt, tr, LifecycleInputs) =>
             LET k == ResolveKey(ek, ck) IN
             /\ k \notin DOMAIN sessionContextMap'
             /\ k \notin DOMAIN activeAgentSpans'
             /\ k \notin DOMAIN pendingUsageMap'
      /\ \A evt \in LifecycleInputs.diagEvents :
           (ModelUsageCall(evt, LifecycleInputs)
            /\ evt.sessionKey \in DOMAIN activeAgentSpans) =>
             evt.sessionKey \notin DOMAIN pendingUsageMap'
    ]_vars

\* a turn-end that consumed a pending record has ended its spans and cleared its
\* key, while the context of another key is stored, some time after its start
HandlersRunToCompletionWitness ==
  \E k \in SessionKeys, j \in DOMAIN sessionContextMap :
    /\ lastEnd.span # 0
    /\ lastEnd.diagUsage # <<>>
    /\ spans[lastEnd.span].attrs["openclaw.session.key"] = k
    /\ spans[lastEnd.span].ends = 1
    /\ spans[spans[lastEnd.span].parent].ends = 1
    /\ k \notin DOMAIN sessionContextMap
    /\ k \notin DOMAIN activeAgentSpans
    /\ k \notin DOMAIN pendingUsageMap
    /\ j # k
    /\ now > sessionContextMap[j].startTime

\* C31: no span of the request / agent turn / tool tree is ended more than once,
\* whatever the order of turn-starts, tool executions, turn-ends, usage records
\* and sweeps over the sessions.
NoSpanEndedTwice ==
  \A i \in 1..Len(spans) : spans[i].ends <= 1

\* C32: with time passing and the sweep firing again and again, every span of
\* the request / agent turn / tool tree that is open is eventually ended.
EverySpanEventuallyEnded ==
  \A i \in 1..MaxFaultSpans :
    (Len(spans) >= i /\ spans[i].ends = 0) ~> (Len(spans) >= i /\ spans[i].ends > 0)

\* C33: between invocations the side-table has an entry for a key exactly when
\* the store has a context with an agent span for that key, and the entry is
\* that agent span.
SideTableMatchesStore ==
  \A k \in SessionKeys :
    /\ (k \in DOMAIN activeAgentSpans)
         <=> (k \in DOMAIN sessionContextMap /\ sessionContextMap[k].agentSpan # 0)
    /\ k \in DOMAIN activeAgentSpans /\ k \in DOMAIN sessionContextMap =>
         activeAgentSpans[k] = sessionContextMap[k].agentSpan

\* C34: no attribute is set on a span that has been ended: a span takes
\* attributes from the listener and from turn-end only while it is open.
NoAttributeAfterEnd ==
  \A i \in 1..Len(spans) : ~spans[i].late

\* C35: when exactly one usage record was delivered in a turn and the listener
\* attached it to the turn's live agent span (the span carries the record's
\* provider), the span ended by turn-end carries the record's input, output and
\* total token counts and its model, whatever the transcript holds.
AttachedUsageSurvivesTurnEnd ==
  LET Carries(name, value) ==
        /\ name \in DOMAIN spans[lastEnd.span].attrs
        /\ spans[lastEnd.span].attrs[name] = value
  IN (/\ lastEnd.span # 0
      /\ lastEnd.side = 1
      /\ Carries("gen_ai.system", UsageRecords[1].provider)) =>
       /\ Carries("gen_ai.usage.input_tokens", UsageRecords[1].usage.input)
       /\ Carries("gen_ai.usage.output_tokens", UsageRecords[1].usage.output)
       /\ Carries("gen_ai.usage.total_tokens", UsageRecords[1].usage.total)
       /\ Carries("gen_ai.response.model", UsageRecords[1].model)

\* C36: for every combination of the event's and the hook context's sessionKey
\* field, the context a turn-start stores is the one that a tool execution and
\* a turn-end carrying the same two fields look up.
SameKeyAcrossHandlers ==
  [][ \A ek \in LifecycleInputs.keyFields, ck \in LifecycleInputs.keyFields,
         agentId \in AgentIds, model \in Models :
        BeforeAgentStartCall(ek, ck, agentId, model, LifecycleInputs) =>
          LET toolKey == ResolveCtxKey(ck)
              endKey == ResolveKey(ek, ck)
          IN /\ endKey \in DOMAIN sessionContextMap'
             /\ sessionContextMap'[endKey].agentSpan = Len(spans')
             /\ toolKey \in DOMAIN sessionContextMap'
             /\ sessionContextMap'[toolKey].agentSpan = Len(spans')
    ]_vars

\* C37: a sweep ends the agent span of a stored context only when the turn-start
\* that started that agent span lies more than the staleness threshold back.
SweepSparesYoungTurns ==
  [][ StaleCleanup(LifecycleInputs) =>
        \A k \in DOMAIN sessionContextMap :
          LET a == sessionContextMap[k].agentSpan IN
          (a # 0 /\ spans'[a].ends > spans[a].ends) => now - turnStart[k] > maxAge
    ]_vars

\* in this step the entries of map m for key j stay as they are
SameEntry(m, n, j) ==
  /\ (j \in DOMAIN n) <=> (j \in DOMAIN m)
  /\ j \in DOMAIN m /\ j \in DOMAIN n => n[j] = m[j]

\* the step leaves everything that belongs to a key other than k as it is, and
\* starts spans only for k and only under nothing or a span of k
TouchesOnly(k) ==
  /\ \A j \in SessionKeys \ {k} :
       /\ SameEntry(sessionContextMap, sessionContextMap', j)
       /\ SameEntry(activeAgentSpans, activeAgentSpans', j)
       /\ SameEntry(pendingUsageMap, pendingUsageMap', j)
       /\ \A i \in 1..Len(spans) :
            spans[i].attrs["openclaw.session.key"] = j => spans'[i] = spans[i]
  /\ \A i \in (Len(spans) + 1)..Len(spans') :
       /\ spans'[i].attrs["openclaw.session.key"] = k
       /\ spans'[i].parent # 0 =>
            spans'[spans'[i].parent].attrs["openclaw.session.key"] = k

\* C38: a turn-start, tool execution, turn-end or usage record that resolves to
\* a sessionKey never creates, changes, ends or removes the context, a span, the
\* side-table entry or the pending record of another sessionKey, and starts no
\* span under a span of another sessionKey.
SessionsIsolated ==
  [][ /\ \A ek \in LifecycleInputs.keyFields, ck \in LifecycleInputs.keyFields,
            agentId \in AgentIds, model \in Models :
           BeforeAgentStartCall(ek, ck, agentId, model, LifecycleInputs) =>
             TouchesOnly(ResolveKey(ek, ck))
      /\ \A ck \in LifecycleInputs.keyFields, agentId \in AgentIds,
            evt \in LifecycleInputs.toolEvents :
           ToolResultPersistCall(ck, agentId, evt, LifecycleInputs) =>
             TouchesOnly(ResolveCtxKey(ck))
      /\ \A ek \in LifecycleInputs.keyFields, ck \in LifecycleInputs.keyFields,
            evt \in LifecycleInputs.endEvents, tr \in LifecycleInputs.transcripts :
           AgentEndCall(ek, ck, evt, tr, LifecycleInputs) => TouchesOnly(ResolveKey(ek, ck))
      /\ \A evt \in LifecycleInputs.diagEvents :
           ModelUsageCall(evt, LifecycleInputs) =>
             TouchesOnly(IF evt.sessionKey # "" THEN evt.sessionKey ELSE "unknown")
    ]_vars

\* while the context of one session is stored and registered, a tool execution
\* and a usage record of another session, which has no context, have been
\* handled: the tool span is unparented, the record is pending, and the first
\* session's agent span is open and carries no usage
SessionsIsolatedWitness ==
  \E k \in SessionKeys, j \in DOMAIN sessionContextMap :
    /\ j # k
    /\ k \notin DOMAIN sessionContextMap
    /\ k \in DOMAIN pendingUsageMap
    /\ j \in DOMAIN activeAgentSpans
    /\ activeAgentSpans[j] = sessionContextMap[j].agentSpan
    /\ spans[sessionContextMap[j].agentSpan].ends = 0
    /\ "gen_ai.usage.input_tokens" \notin DOMAIN spans[sessionContextMap[j].agentSpan].attrs
    /\ \E t \in ToolSpansOf(k) :
         /\ t > sessionContextMap[j].agentSpan
         /\ spans[t].parent = 0

\* C39: a usage record that arrives while no agent span is registered for its
\* session becomes the session's pending record, replacing whatever was pending;
\* a turn-end that finds a pending record and an agent span attaches that
\* record's input and output counts and cost, not a sum over the records that
\* arrived, and leaves no pending record.
LatestPendingRecordWins ==
  [][ /\ \A evt \in UsageInputs.diagEvents :
           LET k == IF evt.sessionKey # "" THEN evt.sessionKey ELSE "unknown" IN
           (ModelUsageCall(evt, UsageInputs) /\ k \notin DOMAIN activeAgentSpans) =>
             /\ k \in DOMAIN pendingUsageMap'
             /\ pendingUsageMap'[k].usage = evt.usage
             /\ pendingUsageMap'[k].costUsd = evt.costUsd
      /\ \A ek \in UsageInputs.keyFields, ck \in UsageInputs.keyFields,
            evt \in UsageInputs.endEvents, tr \in UsageInputs.transcripts :
           LET k == ResolveKey(ek, ck) IN
           (/\ AgentEndCall(ek, ck, evt, tr, UsageInputs)
            /\ k \in DOMAIN pendingUsageMap
            /\ k \in DOMAIN sessionContextMap
            /\ sessionContextMap[k].agentSpan # 0) =>
             LET d == pendingUsageMap[k]
                 a == spans'[sessionContextMap[k].agentSpan]
                 Count(x) == IF x = Absent THEN 0 ELSE x
             IN /\ a.attrs["gen_ai.usage.input_tokens"] = Count(d.usage.input)
                /\ a.attrs["gen_ai.usage.output_tokens"] = Count(d.usage.output)
                /\ d.costUsd # Absent => a.attrs["openclaw.llm.cost_usd"] = d.costUsd
                /\ k \notin DOMAIN pendingUsageMap'
    ]_vars

\* two usage records arrived before the turn-start; turn-end attached the second
\* one, whose counts differ from the first one's and from the sum
LatestPendingRecordWinsWitness ==
  /\ lastEnd.span # 0
  /\ lastEnd.side = 2
  /\ lastEnd.diagUsage # <<>>
  /\ lastEnd.diagUsage[1].usage = UsageRecords[2].usage
  /\ spans[lastEnd.span].ends = 1
  /\ AttrOf(lastEnd.span, "gen_ai.usage.input_tokens") = UsageRecords[2].usage.input
  /\ AttrOf(lastEnd.span, "gen_ai.usage.output_tokens") = UsageRecords[2].usage.output
  /\ counters["llmRequests"] = 2
  /\ counters["tokensPrompt"] > UsageRecords[2].usage.input + UsageRecords[2].usage.cacheRead
  /\ DOMAIN pendingUsageMap = {}

====
